---- MODULE Spec2Model ----
(***************************************************************************)
(* Job queue and worker scheduling of the autonomous scraper.              *)
(*                                                                         *)
(*   backend/main.py  : the submission API (create, update-status, delete) *)
(*   worker/worker.py : ScrapingWorker (poll loop, per-job tasks, status   *)
(*                      writes), RobotsChecker (robots.txt cache)          *)
(*                                                                         *)
(* The job store is the shared MongoDB collection.  Each store operation   *)
(* (insert_one, find, update_one, delete_one) is atomic at the store; a    *)
(* worker task is a coroutine that is cut into one action per suspension   *)
(* point (await) that touches shared state.                                *)
(***************************************************************************)
EXTENDS Integers, Sequences, FiniteSets, TLC

VARIABLES
    jobs,          \* the jobs collection: job id -> document
    nextId,        \* number of documents inserted so far (ids are never reused)
    now,           \* wall clock (datetime.now / time.time), in model time units
    faults,        \* store calls of workers that raised so far (bounds the environment)
    apiCalls,      \* get/update/delete and rejected create calls so far (bounds
                   \* the environment)
    response,      \* the HTTP response of the latest API call
    store_ops,     \* store operations the API handlers have issued so far
    limits,        \* what the environment may do in this run; never changes
    is_running,    \* ScrapingWorker.is_running, per worker process
    loop,          \* position of each worker's main loop
    closed,        \* per worker: close calls issued on the context, the browser and
                   \* the store client
    shutdown_calls, \* per worker: calls of ScrapingWorker.shutdown so far
    current_jobs,  \* ScrapingWorker.current_jobs, per worker process
    tasks,         \* per worker: job id -> the task created for it in this tick
    cache,         \* RobotsChecker.cache, per worker: origin -> (decision, timestamp)
    jobs_processed,
    jobs_succeeded,
    jobs_failed

vars == <<jobs, nextId, now, faults, apiCalls, response, store_ops, limits, closed,
          shutdown_calls, is_running, loop,
          current_jobs, tasks, cache, jobs_processed, jobs_succeeded, jobs_failed>>

----------------------------------------------------------------------------
(* Bounds of the model                                                     *)

MaxJobs == 3          \* documents ever inserted
MaxApiCalls == 1      \* update-status and delete calls of API clients
MaxFaults == 1        \* store calls of a worker that raise
RaceJobs == 2         \* documents inserted in the runs with two worker processes
LiveJobs == 2         \* documents inserted in the runs under fair scheduling
ClientJobs == 2       \* documents inserted in the runs of the API alone
ClientCalls == 2      \* get, update, delete and rejected calls in those runs
MaxTime == 2          \* ticks of the wall clock in those runs
SubmitJobs == 2       \* documents inserted in the runs of the API with a still clock
SubmitCalls == 1      \* get, update, delete and rejected calls in those runs
FifoTime == 1         \* ticks of the wall clock in the runs of a worker with a clock
MixJobs == 1          \* documents inserted in the runs of a worker and the API with a clock

Workers == {"w1", "w2"}

(* the URLs clients submit, per specification *)
ApiUrls == {"a/ok", "a/big", "c/404"}
RaceUrls == {"a/ok", "c/blank"}
WorkUrls == {"a/ok", "a/private", "b/down"}
FifoUrls == {"a/ok", "b/down"}
FetchUrls == {"a/ok", "a/big", "b/down", "c/404", "c/blank"}
ClientUrls == {"a/ok", "c"}

----------------------------------------------------------------------------
(* Optional values: None is Python's None, Some(x) a value.                *)

None == <<>>
Some(x) == <<x>>

(* JobStatus, identical in main.py and worker.py *)
PENDING == "pending"
IN_PROGRESS == "in_progress"
COMPLETED == "completed"
FAILED == "failed"
Statuses == {PENDING, IN_PROGRESS, COMPLETED, FAILED}

(* WorkerConfig.MAX_CONCURRENT_JOBS: read from the environment (default 3)  *)
(* when the worker process starts; any integer can be configured           *)
MAX_CONCURRENT_JOBS == limits.conc

(* the value MAX_CONCURRENT_JOBS is configured with, where not said otherwise *)
ConcurrencyLimit == 2

(* the values MAX_CONCURRENT_JOBS is configured with in the runs of a worker *)
(* with and without capacity                                                 *)
ConfiguredLimits == {-1, 0, 1}

(* RobotsChecker.cache_ttl (3600 s), in model time units *)
cache_ttl == 1

(* WorkerConfig.MAX_PAGE_SIZE: 10 MB by default, in bytes *)
MAX_PAGE_SIZE == 10 * 1024 * 1024

----------------------------------------------------------------------------
(* The outside world: what the network answers for a URL.  A URL is        *)
(* origin/path.                                                            *)

Urls == {"a/ok", "a/private", "a/big", "b/down", "c/", "c/404", "c/blank"}

Origin(url) ==
    IF url \in {"a/ok", "a/private", "a/big"} THEN "a"
    ELSE IF url = "b/down" THEN "b"
    ELSE "c"

(* status of GET <origin>/robots.txt; "error" is a connection failure *)
RobotsStatus(origin) ==
    IF origin = "a" THEN "200"
    ELSE IF origin = "b" THEN "error"
    ELSE "404"

(* RobotFileParser.can_fetch(agent, url) on the origin's policy file *)
PolicyAllows(url) == url # "a/private"

(* page.goto(url): the message of the exception it raises, "" if it returns *)
GotoRaises(url) == IF url = "b/down" THEN "net::ERR_NAME_NOT_RESOLVED" ELSE ""

(* page.goto(url): response.status of what it returns, 0 if it returns None *)
ResponseStatus(url) ==
    IF url = "c/404" THEN 404
    ELSE IF url = "c/blank" THEN 0
    ELSE 200

(* response.status_text *)
StatusText(status) == IF status = 404 THEN "Not Found" ELSE "OK"

(* len(await page.content()) *)
ContentLength(url) == IF url = "a/big" THEN MAX_PAGE_SIZE + 1 ELSE 2048

(* the messages of the exceptions the worker raises itself *)
RobotsDisallowMsg == "Robots.txt disallows fetching this URL"

NoResponseMsg == "Failed to load page - no response"

(* mutant: the message without the status code *)
HttpErrorMsg_NoCode(status) == "HTTP error: " \o StatusText(status)

HttpErrorMsg(status) == "HTTP " \o ToString(status) \o ": " \o StatusText(status)

PageSizeMsg(len) ==
    "Page size (" \o ToString(len) \o " bytes) exceeds maximum allowed size"

(* the strings that validate as an HttpUrl: the URLs above, and an origin    *)
(* written without a path                                                    *)
HttpUrls == Urls \cup {"c"}

(* str() of a validated HttpUrl: an empty path is written "/" *)
StrHttpUrl(url) == IF url = "c" THEN "c/" ELSE url

(* the valid request bodies clients submit to POST /scrape *)
Requests == { [url |-> u, options |-> "{}"] : u \in HttpUrls }

(* bodies that do not validate: no url, a url that is no HTTP URL *)
BadRequests == { [options |-> "{}"], [url |-> "not-a-valid-url", options |-> "{}"] }

----------------------------------------------------------------------------
(* The job store                                                           *)

(* create_scrape_job: the inserted document *)
NewJobDoc(req, t) ==
    [ url         |-> StrHttpUrl(req.url),
      status      |-> PENDING,
      createdAt   |-> t,
      updatedAt   |-> t,
      completedAt |-> None,
      result      |-> None,
      error       |-> None,
      options     |-> req.options ]

(* mutant: the update replaces the document's timestamps, createdAt too *)
ApplySet_Restamp(doc, upd) ==
    [ doc EXCEPT
        !.status      = upd.status,
        !.createdAt   = upd.updatedAt,
        !.updatedAt   = upd.updatedAt ]

(* update_one(..., {"$set": update_doc}): a key of update_doc that is absent  *)
(* (None here) leaves the field alone                                         *)
ApplySet(doc, upd) ==
    [ doc EXCEPT
        !.status      = upd.status,
        !.updatedAt   = upd.updatedAt,
        !.completedAt = IF upd.completedAt # None THEN upd.completedAt ELSE @,
        !.result      = IF upd.result # None THEN upd.result ELSE @,
        !.error       = IF upd.error # None THEN upd.error ELSE @ ]

(* mutant: the update inserts a document when the id matches nothing (upsert) *)
UpdateOne_Upsert(coll, id, upd) ==
    IF id \in DOMAIN coll
    THEN [ coll EXCEPT ![id] = ApplySet(@, upd) ]
    ELSE [ i \in DOMAIN coll \cup {id} |->
             IF i = id
             THEN [ url |-> "", status |-> upd.status, createdAt |-> upd.updatedAt,
                    updatedAt |-> upd.updatedAt, completedAt |-> upd.completedAt,
                    result |-> upd.result, error |-> upd.error, options |-> "{}" ]
             ELSE coll[i] ]

(* update_one({"_id": id}, ...): matches by id alone, a missing id matches nothing *)
UpdateOne(coll, id, upd) ==
    IF id \in DOMAIN coll
    THEN [ coll EXCEPT ![id] = ApplySet(@, upd) ]
    ELSE coll

(* Python truthiness of an optional string: None and "" are false *)
TruthyStr(opt) == opt # None /\ opt[1] # ""

(* update_job (API): the update document *)
ApiUpdateDoc(req, t) ==
    [ status      |-> req.status,
      updatedAt   |-> t,
      completedAt |-> IF req.status \in {COMPLETED, FAILED} THEN Some(t) ELSE None,
      result      |-> req.result,
      error       |-> req.error ]

(* mutant: every status write stamps completedAt and clears the error *)
WorkerUpdateDoc_Stamp(status, result, error, t) ==
    [ status      |-> status,
      updatedAt   |-> t,
      completedAt |-> Some(t),
      result      |-> result,
      error       |-> Some("") ]

(* ScrapingWorker._update_job_status: the update document.  The worker only *)
(* passes results built by _scrape_page, which are never empty, so          *)
(* "if result:" is "result is not None" on every call.                       *)
WorkerUpdateDoc(status, result, error, t) ==
    [ status      |-> status,
      updatedAt   |-> t,
      completedAt |-> IF status \in {COMPLETED, FAILED} THEN Some(t) ELSE None,
      result      |-> result,
      error       |-> IF TruthyStr(error) THEN error ELSE None ]

(* _update_job_status: every exception of the store call is caught and logged *)
WorkerWrite(coll, up, id, status, result, error, t) ==
    IF up THEN UpdateOne(coll, id, WorkerUpdateDoc(status, result, error, t))
    ELSE coll

PendingIds(coll) == { j \in DOMAIN coll : coll[j].status = PENDING }

(* mutant: the query without its sort *)
FindPending_Unsorted(coll, n) ==
    LET P == PendingIds(coll)
        k == IF Cardinality(P) < n THEN Cardinality(P) ELSE n
    IN { S \in SUBSET P : Cardinality(S) = k }

(* mutant: the poll finds no pending job *)
FindPending_Nothing(coll, n) == { {} }

(* mutant: the query without its limit *)
FindPending_NoLimit(coll, n) == { PendingIds(coll) }

(* find({"status": "pending"}).sort("createdAt", 1).limit(n): the possible    *)
(* answers; documents with equal createdAt come in an order the store picks   *)
FindPending(coll, n) ==
    LET P == PendingIds(coll)
        k == IF Cardinality(P) < n THEN Cardinality(P) ELSE n
    IN { S \in SUBSET P :
           /\ Cardinality(S) = k
           /\ \A j \in S : \A i \in P \ S : coll[i].createdAt >= coll[j].createdAt }

----------------------------------------------------------------------------
(* Submission API (backend/main.py)                                        *)

(* the state of the worker processes, which no API call touches *)
workerVars == <<is_running, loop, current_jobs, tasks, cache,
                jobs_processed, jobs_succeeded, jobs_failed>>

(* the ObjectIds the store hands out, in the order it hands them out *)
ObjectIds == 1..9

(* str(ObjectId) *)
StrObjectId(id) == ToString(id)

(* ObjectId.is_valid(job_id) *)
ObjectIdIsValid(job_id) == \E id \in ObjectIds : StrObjectId(id) = job_id

(* ObjectId(job_id), for a valid job_id *)
ParseObjectId(job_id) == CHOOSE id \in ObjectIds : StrObjectId(id) = job_id

(* serialize_job: the document with its _id as a string *)
SerializeJob(id, doc) ==
    [ id          |-> StrObjectId(id),
      url         |-> doc.url,
      status      |-> doc.status,
      createdAt   |-> doc.createdAt,
      updatedAt   |-> doc.updatedAt,
      completedAt |-> doc.completedAt,
      result      |-> doc.result,
      error       |-> doc.error,
      options     |-> doc.options ]

(* an HTTP response: the status code, the job in its body if it carries one, *)
(* and its detail or message                                                 *)
HttpResponse(code, job, detail) == [ code |-> code, job |-> job, detail |-> detail ]

NoResponse == HttpResponse(0, None, "")

(* get_job_by_id: the job, or the HTTPException it raises *)
GetJobById(coll, job_id) ==
    IF ~ObjectIdIsValid(job_id)
    THEN HttpResponse(400, None, "Invalid job ID format")
    ELSE IF ParseObjectId(job_id) \notin DOMAIN coll
    THEN HttpResponse(404, None, "Job not found")
    ELSE HttpResponse(200,
                      Some(SerializeJob(ParseObjectId(job_id),
                                        coll[ParseObjectId(job_id)])),
                      "")

(* mutant: the lookup is issued before the id is validated *)
GetJobByIdOps_LookupFirst(job_id) == 1

(* get_job_by_id: the store operations it issues (one find_one, after the    *)
(* id has been validated)                                                    *)
GetJobByIdOps(job_id) == IF ObjectIdIsValid(job_id) THEN 1 ELSE 0

(* RequestValidationError handler: the body did not validate *)
ValidationError == HttpResponse(422, None, "Invalid request data")

(* ScrapeJobRequest: url is required and must parse as an HttpUrl *)
ValidScrapeRequest(req) == "url" \in DOMAIN req /\ req.url \in HttpUrls

(* JobUpdateRequest.validate_status *)
ValidUpdateRequest(req) == req.status \in Statuses

(* the bodies clients send to PUT /jobs/{job_id} *)
UpdateRequests ==
    { [status |-> s, result |-> r, error |-> e] :
        s \in Statuses,
        r \in {None, Some([url |-> "api", content |-> "api"])},
        e \in {None, Some("manual")} }

BadUpdateRequests == { [status |-> "done", result |-> None, error |-> None] }

(* the job ids clients put in the path: the id of a document that is or may  *)
(* come to be in the store, or a string that is no ObjectId                  *)
PathIds == { StrObjectId(id) : id \in 1..limits.jobs } \cup {"not-an-id"}

(* POST /scrape *)
CreateJob(req) ==
    IF ~ValidScrapeRequest(req)
    THEN /\ apiCalls < limits.api
         /\ apiCalls' = apiCalls + 1
         /\ response' = ValidationError
         /\ UNCHANGED <<limits, closed, shutdown_calls, jobs, nextId, now, faults, store_ops, workerVars>>
    ELSE /\ nextId < limits.jobs
         /\ nextId' = nextId + 1
         /\ jobs' = [ i \in DOMAIN jobs \cup {nextId + 1} |->
                        IF i = nextId + 1 THEN NewJobDoc(req, now) ELSE jobs[i] ]
         /\ response' = HttpResponse(201,
                                     Some(SerializeJob(nextId + 1, jobs'[nextId + 1])),
                                     "")
         /\ store_ops' = store_ops + 2      \* insert_one, find_one
         /\ UNCHANGED <<limits, closed, shutdown_calls, now, faults, apiCalls, workerVars>>

(* GET /jobs/{job_id} *)
GetJob(job_id) ==
    /\ apiCalls < limits.api
    /\ apiCalls' = apiCalls + 1
    /\ response' = GetJobById(jobs, job_id)
    /\ store_ops' = store_ops + GetJobByIdOps(job_id)
    /\ UNCHANGED <<limits, closed, shutdown_calls, jobs, nextId, now, faults, workerVars>>

(* PUT /jobs/{job_id} *)
UpdateJob(job_id, req) ==
    /\ apiCalls < limits.api
    /\ apiCalls' = apiCalls + 1
    /\ IF ~ValidUpdateRequest(req)
       THEN response' = ValidationError /\ UNCHANGED <<jobs, store_ops>>
       ELSE IF GetJobById(jobs, job_id).code # 200
       THEN /\ response' = GetJobById(jobs, job_id)
            /\ store_ops' = store_ops + GetJobByIdOps(job_id)
            /\ UNCHANGED jobs
       ELSE /\ jobs' = UpdateOne(jobs, ParseObjectId(job_id), ApiUpdateDoc(req, now))
            /\ response' = GetJobById(jobs', job_id)
            /\ store_ops' = store_ops + 3   \* find_one, update_one, find_one
    /\ UNCHANGED <<limits, closed, shutdown_calls, nextId, now, faults, workerVars>>

(* DELETE /jobs/{job_id} *)
DeleteJob(job_id) ==
    /\ apiCalls < limits.api
    /\ apiCalls' = apiCalls + 1
    /\ IF GetJobById(jobs, job_id).code # 200
       THEN /\ response' = GetJobById(jobs, job_id)
            /\ store_ops' = store_ops + GetJobByIdOps(job_id)
            /\ UNCHANGED jobs
       ELSE /\ jobs' = [ i \in DOMAIN jobs \ {ParseObjectId(job_id)} |-> jobs[i] ]
            /\ response' = HttpResponse(200, None, "Job deleted successfully")
            /\ store_ops' = store_ops + 2   \* find_one, delete_one
    /\ UNCHANGED <<limits, closed, shutdown_calls, nextId, now, faults, workerVars>>

----------------------------------------------------------------------------
(* RobotsChecker (worker/worker.py)                                        *)

EmptyFn == [ i \in {} |-> None ]

(* mutant: a cached decision never expires *)
CacheHit_NoExpiry(c, origin, t) == origin \in DOMAIN c

(* can_fetch, the cache lookup: the key is the robots.txt URL of the origin   *)
(* (and the agent, which is always config.USER_AGENT)                         *)
CacheHit(c, origin, t) == origin \in DOMAIN c /\ t - c[origin].ts < cache_ttl

(* mutant: a policy file that cannot be had denies the fetch *)
RobotsDecision_FailClosed(url) ==
    RobotsStatus(Origin(url)) = "200" /\ PolicyAllows(url)

(* can_fetch after the robots.txt request has been answered: the decision    *)
RobotsDecision(url) ==
    IF RobotsStatus(Origin(url)) = "200" THEN PolicyAllows(url) ELSE TRUE

(* mutant: the answer is cached whatever the request returned *)
CacheAfterFetch_Always(c, url, t) ==
    [ o \in DOMAIN c \cup {Origin(url)} |->
        IF o = Origin(url) THEN [decision |-> RobotsDecision(url), ts |-> t]
        ELSE c[o] ]

(* can_fetch after the robots.txt request has been answered: the cache       *)
CacheAfterFetch(c, url, t) ==
    IF RobotsStatus(Origin(url)) = "200"
    THEN [ o \in DOMAIN c \cup {Origin(url)} |->
             IF o = Origin(url) THEN [decision |-> PolicyAllows(url), ts |-> t]
             ELSE c[o] ]
    ELSE c

----------------------------------------------------------------------------
(* ScrapingWorker (worker/worker.py)                                       *)

(* @retry(stop=stop_after_attempt(3)) on _process_single_job *)
MaxAttempts == 3

(* mutant: the task goes to the robots check without the in_progress write *)
NewTask_SkipStart(doc) ==
    [ pc      |-> "robots",
      url     |-> doc.url,
      options |-> doc.options,
      attempt |-> 1,
      allowed |-> None,
      delayed |-> FALSE,
      page    |-> FALSE,
      opened  |-> 0,
      loads   |-> 0,
      analysed |-> FALSE,
      err     |-> None,
      raised  |-> FALSE,
      result  |-> None,
      wrote   |-> None ]

(* asyncio.create_task(self._process_single_job(job)): job is the document   *)
(* the poll returned                                                         *)
NewTask(doc) ==
    [ pc      |-> "start",
      url     |-> doc.url,
      options |-> doc.options,
      attempt |-> 1,
      allowed |-> None,      \* what can_fetch returned
      delayed |-> FALSE,     \* the rate-limit sleep has run
      page    |-> FALSE,     \* a page is open for this job
      opened  |-> 0,         \* pages opened for this job
      loads   |-> 0,         \* page.goto calls issued for this job
      analysed |-> FALSE,    \* extract_content has been called on the page
      err     |-> None,      \* the exception raised in the try block
      raised  |-> FALSE,     \* an exception left _process_single_job
      result  |-> None,
      wrote   |-> None ]     \* status of the last _update_job_status call

(* ContentExtractor.extract_content(html_content, url): what it returns for   *)
(* the page of url                                                           *)
ExtractContent(url) == "analysis of " \o url

(* mutant: the result names the origin instead of the URL of the job *)
ScrapeResult_OriginUrl(url) ==
    [ url            |-> Origin(url),
      status_code    |-> ResponseStatus(url),
      content_length |-> ContentLength(url),
      content        |-> ExtractContent(url) ]

(* _scrape_page: the compiled result *)
ScrapeResult(url) ==
    [ url            |-> url,
      status_code    |-> ResponseStatus(url),
      content_length |-> ContentLength(url),
      content        |-> ExtractContent(url) ]

(* mutant: the handler catches nothing *)
Catches_Nothing(msg) == FALSE

(* "except Exception as e" of _process_single_job catches whatever the try   *)
(* block raises                                                              *)
Catches(msg) == TRUE

(* an exception with message msg is raised inside the try block *)
RaiseInTry(t, msg) ==
    IF Catches(msg)
    THEN [ t EXCEPT !.err = Some(msg), !.pc = "except" ]
    ELSE [ t EXCEPT !.err = Some(msg), !.raised = TRUE, !.pc = "finally" ]

(* mutant: the answer of can_fetch is ignored *)
AfterCanFetch_Ignored(t, d) == [ t EXCEPT !.allowed = Some(d), !.pc = "delay" ]

(* "if not await can_fetch(...): raise Exception(...)" *)
AfterCanFetch(t, d) ==
    IF d
    THEN [ t EXCEPT !.allowed = Some(TRUE), !.pc = "delay" ]
    ELSE RaiseInTry([ t EXCEPT !.allowed = Some(FALSE) ], RobotsDisallowMsg)

(* mutant: the capacity is computed one too high *)
JobsToProcess_OneMore(cur) == MAX_CONCURRENT_JOBS - Cardinality(cur) + 1

(* jobs_to_process = MAX_CONCURRENT_JOBS - len(self.current_jobs) *)
JobsToProcess(cur) == MAX_CONCURRENT_JOBS - Cardinality(cur)

(* mutant: the cleanup is missing *)
Discard_Missing(cur, id) == cur

(* mutant: the finally block empties the set *)
Discard_All(cur, id) == {}

(* "finally: self.current_jobs.discard(job_id)" *)
Discard(cur, id) == cur \ {id}

SetTask(w, id, t) == [ tasks EXCEPT ![w] = [ @ EXCEPT ![id] = t ] ]

(* ScrapingWorker.start up to the first iteration of the loop *)
Start(w) ==
    /\ loop[w] = "init"
    /\ is_running' = [ is_running EXCEPT ![w] = TRUE ]
    /\ loop' = [ loop EXCEPT ![w] = "poll" ]
    /\ UNCHANGED <<limits, closed, shutdown_calls, response, store_ops, jobs, nextId, now, faults, apiCalls, current_jobs,
                   tasks, cache, jobs_processed, jobs_succeeded, jobs_failed>>

(* a store call of a worker is answered (TRUE) or raises (FALSE) *)
CallAnswers == IF faults < limits.faults THEN {TRUE, FALSE} ELSE {TRUE}

FaultsAfter(ok) == IF ok THEN faults ELSE faults + 1

(* mutant: the error of the query leaves _process_jobs and ends the loop *)
AfterPollError_LoopEnds == "wait"

(* _process_jobs, "except Exception as e: logger.error(...)": the error of  *)
(* the query is caught in the tick, which returns to the loop's sleep       *)
AfterPollError == "sleep"

(* mutant: the tick goes on to its query whatever is in flight *)
HasCapacity_Always(cur) == TRUE

(* "if len(self.current_jobs) >= config.MAX_CONCURRENT_JOBS: return", negated *)
HasCapacity(cur) == Cardinality(cur) < MAX_CONCURRENT_JOBS

(* _process_jobs up to "await asyncio.gather(...)" *)
ProcessJobs(w) ==
    /\ loop[w] = "poll"
    /\ IF ~HasCapacity(current_jobs[w])
       THEN \* no capacity: return without a query
            /\ loop' = [ loop EXCEPT ![w] = "sleep" ]
            /\ UNCHANGED <<current_jobs, tasks, faults>>
       ELSE \E ok \in CallAnswers :
              /\ faults' = FaultsAfter(ok)
              /\ IF ~ok
                 THEN \* the query raises: "except Exception" logs it and the tick ends
                      /\ loop' = [ loop EXCEPT ![w] = AfterPollError ]
                      /\ UNCHANGED <<current_jobs, tasks>>
                 ELSE \E found \in FindPending(jobs, JobsToProcess(current_jobs[w])) :
                        LET new == found \ current_jobs[w]
                        IN /\ current_jobs' = [ current_jobs EXCEPT ![w] = @ \cup new ]
                           /\ tasks' = [ tasks EXCEPT ![w] =
                                           [ j \in new |-> NewTask(jobs[j]) ] ]
                           /\ loop' = [ loop EXCEPT ![w] =
                                          IF new = {} THEN "sleep" ELSE "gather" ]
    /\ UNCHANGED <<limits, closed, shutdown_calls, response, store_ops, jobs, nextId, now, apiCalls, is_running,
                   cache, jobs_processed, jobs_succeeded, jobs_failed>>

(* "await asyncio.gather(...)" returns: every task of the tick has ended *)
GatherReturn(w) ==
    /\ loop[w] = "gather"
    /\ \A j \in DOMAIN tasks[w] : tasks[w][j].pc = "done"
    /\ tasks' = [ tasks EXCEPT ![w] = EmptyFn ]
    /\ loop' = [ loop EXCEPT ![w] = "sleep" ]
    /\ UNCHANGED <<limits, closed, shutdown_calls, response, store_ops, jobs, nextId, now, faults, apiCalls, is_running,
                   current_jobs, cache, jobs_processed, jobs_succeeded, jobs_failed>>

(* asyncio.sleep(POLL_INTERVAL) ends and "while self.is_running" is tested *)
Sleep(w) ==
    /\ loop[w] = "sleep"
    /\ is_running[w]
    /\ loop' = [ loop EXCEPT ![w] = "poll" ]
    /\ UNCHANGED <<limits, closed, shutdown_calls, response, store_ops, jobs, nextId, now, faults, apiCalls, is_running,
                   current_jobs, tasks, cache, jobs_processed, jobs_succeeded,
                   jobs_failed>>

----------------------------------------------------------------------------
(* The end of the main loop: start's "except KeyboardInterrupt" and          *)
(* "finally: await self.shutdown()", ScrapingWorker.shutdown, and the second *)
(* call of shutdown in the finally block of main                             *)

(* mutant: shutdown does not wait for the current jobs *)
JobsDone_NoWait(cur) == TRUE

(* "while self.current_jobs: await asyncio.sleep(1)" is left *)
JobsDone(cur) == cur = {}

(* the shutdown signal reaches the loop as KeyboardInterrupt at one of its   *)
(* awaits (the gather of _process_jobs, the poll-interval sleep): start logs *)
(* it and its finally block calls shutdown, which sets is_running to False   *)
(* and comes to its wait for the current jobs; the tasks go on running       *)
Interrupt(w) ==
    /\ limits.stop
    /\ loop[w] \in {"gather", "sleep"}
    /\ is_running' = [ is_running EXCEPT ![w] = FALSE ]
    /\ shutdown_calls' = [ shutdown_calls EXCEPT ![w] = @ + 1 ]
    /\ loop' = [ loop EXCEPT ![w] = "wait" ]
    /\ UNCHANGED <<limits, closed, response, store_ops, jobs, nextId, now, faults, apiCalls,
                   current_jobs, tasks, cache, jobs_processed, jobs_succeeded,
                   jobs_failed>>

(* shutdown: the wait for the current jobs ends, "await self.context.close()" *)
ShutdownWait(w) ==
    /\ loop[w] = "wait"
    /\ JobsDone(current_jobs[w])
    /\ closed' = [ closed EXCEPT ![w].context = @ + 1 ]
    /\ loop' = [ loop EXCEPT ![w] = "close" ]
    /\ UNCHANGED <<limits, shutdown_calls, response, store_ops, jobs, nextId, now, faults,
                   apiCalls, is_running, current_jobs, tasks, cache, jobs_processed,
                   jobs_succeeded, jobs_failed>>

(* shutdown: "await self.browser.close()", "self.client.close()", the final  *)
(* statistics; when shutdown was called by start, start returns to main,     *)
(* whose finally block calls shutdown again                                  *)
ShutdownClose(w) ==
    /\ loop[w] = "close"
    /\ closed' = [ closed EXCEPT ![w].browser = @ + 1, ![w].client = @ + 1 ]
    /\ IF shutdown_calls[w] = 1
       THEN /\ shutdown_calls' = [ shutdown_calls EXCEPT ![w] = @ + 1 ]
            /\ loop' = [ loop EXCEPT ![w] = "wait" ]
       ELSE /\ loop' = [ loop EXCEPT ![w] = "exit" ]
            /\ UNCHANGED shutdown_calls
    /\ UNCHANGED <<limits, response, store_ops, jobs, nextId, now, faults, apiCalls,
                   is_running, current_jobs, tasks, cache, jobs_processed,
                   jobs_succeeded, jobs_failed>>

----------------------------------------------------------------------------
(* _process_single_job, one action per suspension point                    *)

TaskAt(w, id, pc) == id \in DOMAIN tasks[w] /\ tasks[w][id].pc = pc

(* "await self._update_job_status(job_id, JobStatus.IN_PROGRESS)" *)
TaskStart(w, id) ==
    /\ TaskAt(w, id, "start")
    /\ \E ok \in CallAnswers :
          /\ faults' = FaultsAfter(ok)
          /\ jobs' = WorkerWrite(jobs, ok, id, IN_PROGRESS, None, None, now)
    /\ tasks' = SetTask(w, id, [ tasks[w][id] EXCEPT !.pc = "robots",
                                                     !.wrote = Some(IN_PROGRESS) ])
    /\ UNCHANGED <<limits, closed, shutdown_calls, response, store_ops, nextId, now, apiCalls, is_running, loop,
                   current_jobs, cache, jobs_processed, jobs_succeeded, jobs_failed>>

(* can_fetch: the cache lookup; a hit returns at once, a miss requests robots.txt *)
TaskRobots(w, id) ==
    /\ TaskAt(w, id, "robots")
    /\ LET t == tasks[w][id]
           o == Origin(t.url)
       IN tasks' = SetTask(w, id,
                     IF CacheHit(cache[w], o, now)
                     THEN AfterCanFetch(t, cache[w][o].decision)
                     ELSE [ t EXCEPT !.pc = "robots_fetch" ])
    /\ UNCHANGED <<limits, closed, shutdown_calls, response, store_ops, jobs, nextId, now, faults, apiCalls, is_running, loop,
                   current_jobs, cache, jobs_processed, jobs_succeeded, jobs_failed>>

(* can_fetch: the robots.txt request is answered *)
TaskRobotsFetch(w, id) ==
    /\ TaskAt(w, id, "robots_fetch")
    /\ LET t == tasks[w][id]
       IN /\ cache' = [ cache EXCEPT ![w] = CacheAfterFetch(@, t.url, now) ]
          /\ tasks' = SetTask(w, id, AfterCanFetch(t, RobotsDecision(t.url)))
    /\ UNCHANGED <<limits, closed, shutdown_calls, response, store_ops, jobs, nextId, now, faults, apiCalls, is_running, loop,
                   current_jobs, jobs_processed, jobs_succeeded, jobs_failed>>

(* "await asyncio.sleep(config.MIN_REQUEST_DELAY)" ends; _scrape_page starts *)
TaskDelay(w, id) ==
    /\ TaskAt(w, id, "delay")
    /\ tasks' = SetTask(w, id, [ tasks[w][id] EXCEPT !.delayed = TRUE,
                                                     !.pc = "newpage" ])
    /\ UNCHANGED <<limits, closed, shutdown_calls, response, store_ops, jobs, nextId, now, faults, apiCalls, is_running, loop,
                   current_jobs, cache, jobs_processed, jobs_succeeded, jobs_failed>>

(* _scrape_page: "page = await self.context.new_page()" *)
TaskNewPage(w, id) ==
    /\ TaskAt(w, id, "newpage")
    /\ tasks' = SetTask(w, id, [ tasks[w][id] EXCEPT !.page = TRUE,
                                                     !.opened = @ + 1,
                                                     !.pc = "goto" ])
    /\ UNCHANGED <<limits, closed, shutdown_calls, response, store_ops, jobs, nextId, now, faults, apiCalls, is_running, loop,
                   current_jobs, cache, jobs_processed, jobs_succeeded, jobs_failed>>

(* _scrape_page: "response = await page.goto(...)" and the checks on it *)
TaskGoto(w, id) ==
    /\ TaskAt(w, id, "goto")
    /\ LET t == [ tasks[w][id] EXCEPT !.loads = @ + 1 ]
           status == ResponseStatus(t.url)
       IN tasks' = SetTask(w, id,
                     IF GotoRaises(t.url) # ""
                     THEN [ t EXCEPT !.err = Some(GotoRaises(t.url)), !.pc = "close" ]
                     ELSE IF status = 0
                     THEN [ t EXCEPT !.err = Some(NoResponseMsg), !.pc = "close" ]
                     ELSE IF status >= 400
                     THEN [ t EXCEPT !.err = Some(HttpErrorMsg(status)), !.pc = "close" ]
                     ELSE [ t EXCEPT !.pc = "content" ])
    /\ UNCHANGED <<limits, closed, shutdown_calls, response, store_ops, jobs, nextId, now, faults, apiCalls, is_running, loop,
                   current_jobs, cache, jobs_processed, jobs_succeeded, jobs_failed>>

(* mutant: no size is too large *)
TooLarge_Never(len) == FALSE

(* "if len(html_content) > config.MAX_PAGE_SIZE" *)
TooLarge(len) == len > MAX_PAGE_SIZE

(* _scrape_page: page content, the size check, extraction, screenshot, the  *)
(* compiled result                                                          *)
TaskContent(w, id) ==
    /\ TaskAt(w, id, "content")
    /\ LET t == tasks[w][id]
           len == ContentLength(t.url)
       IN tasks' = SetTask(w, id,
                     IF TooLarge(len)
                     THEN [ t EXCEPT !.err = Some(PageSizeMsg(len)), !.pc = "close" ]
                     ELSE [ t EXCEPT !.analysed = TRUE,
                                     !.result = Some(ScrapeResult(t.url)),
                                     !.pc = "close" ])
    /\ UNCHANGED <<limits, closed, shutdown_calls, response, store_ops, jobs, nextId, now, faults, apiCalls, is_running, loop,
                   current_jobs, cache, jobs_processed, jobs_succeeded, jobs_failed>>

(* mutant: the page is closed on the path of a successful fetch only *)
ClosePage_OnSuccess(t) == IF t.err = None THEN [ t EXCEPT !.page = FALSE ] ELSE t

(* "finally: if page: await page.close()" *)
ClosePage(t) == [ t EXCEPT !.page = FALSE ]

(* _scrape_page: "finally: await page.close()", then return or re-raise *)
TaskClose(w, id) ==
    /\ TaskAt(w, id, "close")
    /\ LET t == ClosePage(tasks[w][id])
       IN tasks' = SetTask(w, id,
                     IF t.err = None
                     THEN [ t EXCEPT !.pc = "complete" ]
                     ELSE RaiseInTry(t, t.err[1]))
    /\ UNCHANGED <<limits, closed, shutdown_calls, response, store_ops, jobs, nextId, now, faults, apiCalls, is_running, loop,
                   current_jobs, cache, jobs_processed, jobs_succeeded, jobs_failed>>

(* "await self._update_job_status(job_id, JobStatus.COMPLETED, result=result)" *)
TaskComplete(w, id) ==
    /\ TaskAt(w, id, "complete")
    /\ \E ok \in CallAnswers :
          /\ faults' = FaultsAfter(ok)
          /\ jobs' = WorkerWrite(jobs, ok, id, COMPLETED, tasks[w][id].result, None, now)
    /\ tasks' = SetTask(w, id, [ tasks[w][id] EXCEPT !.pc = "finally",
                                                     !.wrote = Some(COMPLETED) ])
    /\ UNCHANGED <<limits, closed, shutdown_calls, response, store_ops, nextId, now, apiCalls, is_running, loop,
                   current_jobs, cache, jobs_processed, jobs_succeeded, jobs_failed>>

(* "await self._update_job_status(job_id, JobStatus.FAILED, error=str(e))" *)
TaskExcept(w, id) ==
    /\ TaskAt(w, id, "except")
    /\ \E ok \in CallAnswers :
          /\ faults' = FaultsAfter(ok)
          /\ jobs' = WorkerWrite(jobs, ok, id, FAILED, None, tasks[w][id].err, now)
    /\ tasks' = SetTask(w, id, [ tasks[w][id] EXCEPT !.pc = "finally",
                                                     !.wrote = Some(FAILED) ])
    /\ UNCHANGED <<limits, closed, shutdown_calls, response, store_ops, nextId, now, apiCalls, is_running, loop,
                   current_jobs, cache, jobs_processed, jobs_succeeded, jobs_failed>>

(* mutant: the task ends without counting its outcome *)
TaskFinally_Uncounted(w, id) ==
    /\ TaskAt(w, id, "finally")
    /\ jobs_processed' = [ jobs_processed EXCEPT ![w] = @ + 1 ]
    /\ current_jobs' = [ current_jobs EXCEPT ![w] = Discard(@, id) ]
    /\ tasks' = SetTask(w, id, [ tasks[w][id] EXCEPT !.pc = "done" ])
    /\ UNCHANGED <<limits, closed, shutdown_calls, response, store_ops, jobs, nextId, now, faults, apiCalls, is_running, loop,
                   cache, jobs_succeeded, jobs_failed>>

(* the rest of the handler after the status write, the finally block, and the *)
(* retry wrapper: it calls the function again only if an exception left it    *)
TaskFinally(w, id) ==
    /\ TaskAt(w, id, "finally")
    /\ LET t == tasks[w][id]
       IN /\ jobs_succeeded' = [ jobs_succeeded EXCEPT ![w] =
                                   IF t.wrote = Some(COMPLETED) THEN @ + 1 ELSE @ ]
          /\ jobs_failed' = [ jobs_failed EXCEPT ![w] =
                                IF t.wrote = Some(FAILED) THEN @ + 1 ELSE @ ]
          /\ jobs_processed' = [ jobs_processed EXCEPT ![w] = @ + 1 ]
          /\ current_jobs' = [ current_jobs EXCEPT ![w] = Discard(@, id) ]
          /\ tasks' = SetTask(w, id,
                        IF t.raised /\ t.attempt < MaxAttempts
                        THEN [ NewTask(t) EXCEPT !.attempt = t.attempt + 1 ]
                        ELSE [ t EXCEPT !.pc = "done" ])
    /\ UNCHANGED <<limits, closed, shutdown_calls, response, store_ops, jobs, nextId, now, faults, apiCalls, is_running, loop,
                   cache>>

----------------------------------------------------------------------------
(* The environment                                                         *)

Tick ==
    /\ now < limits.time
    /\ now' = now + 1
    /\ UNCHANGED <<limits, closed, shutdown_calls, response, store_ops, jobs, nextId, faults, apiCalls, is_running, loop,
                   current_jobs, tasks, cache, jobs_processed, jobs_succeeded,
                   jobs_failed>>

----------------------------------------------------------------------------
(* The state after construction: an empty collection, and ScrapingWorker.__init__ *)
(* in every worker process that is launched                                       *)
InitWith(launched, lim) ==
    /\ jobs = EmptyFn
    /\ nextId = 0
    /\ now = 0
    /\ faults = 0
    /\ apiCalls = 0
    /\ response = NoResponse
    /\ store_ops = 0
    /\ limits = lim
    /\ closed = [ w \in Workers |-> [context |-> 0, browser |-> 0, client |-> 0] ]
    /\ shutdown_calls = [ w \in Workers |-> 0 ]
    /\ is_running = [ w \in Workers |-> FALSE ]
    /\ loop = [ w \in Workers |-> IF w \in launched THEN "init" ELSE "off" ]
    /\ current_jobs = [ w \in Workers |-> {} ]
    /\ tasks = [ w \in Workers |-> EmptyFn ]
    /\ cache = [ w \in Workers |-> EmptyFn ]
    /\ jobs_processed = [ w \in Workers |-> 0 ]
    /\ jobs_succeeded = [ w \in Workers |-> 0 ]
    /\ jobs_failed = [ w \in Workers |-> 0 ]

TaskStep(w) ==
    \/ \E id \in DOMAIN tasks[w] : TaskStart(w, id)
    \/ \E id \in DOMAIN tasks[w] : TaskRobots(w, id)
    \/ \E id \in DOMAIN tasks[w] : TaskRobotsFetch(w, id)
    \/ \E id \in DOMAIN tasks[w] : TaskDelay(w, id)
    \/ \E id \in DOMAIN tasks[w] : TaskNewPage(w, id)
    \/ \E id \in DOMAIN tasks[w] : TaskGoto(w, id)
    \/ \E id \in DOMAIN tasks[w] : TaskContent(w, id)
    \/ \E id \in DOMAIN tasks[w] : TaskClose(w, id)
    \/ \E id \in DOMAIN tasks[w] : TaskComplete(w, id)
    \/ \E id \in DOMAIN tasks[w] : TaskExcept(w, id)
    \/ \E id \in DOMAIN tasks[w] : TaskFinally(w, id)

WorkerStep(w) ==
    \/ Start(w)
    \/ ProcessJobs(w)
    \/ GatherReturn(w)
    \/ Sleep(w)
    \/ TaskStep(w)

(* a client submits one of the URLs of this run *)
Create == \E req \in Requests : req.url \in limits.urls /\ CreateJob(req)

ApiStep ==
    \/ Create
    \/ \E id \in DOMAIN jobs, req \in UpdateRequests : UpdateJob(StrObjectId(id), req)
    \/ \E id \in DOMAIN jobs : DeleteJob(StrObjectId(id))

(* One worker process and the API clients. *)
Init ==
    InitWith({"w1"}, [jobs |-> MaxJobs, api |-> MaxApiCalls, faults |-> 0, time |-> 0,
                     urls |-> ApiUrls,
                     conc |-> ConcurrencyLimit, stop |-> FALSE])

Next ==
    \/ ApiStep
    \/ \E w \in Workers : WorkerStep(w)

Spec == Init /\ [][Next]_vars

(* Two worker processes on the same store; clients only submit jobs. *)
RaceInit ==
    InitWith(Workers, [jobs |-> RaceJobs, api |-> 0, faults |-> 0, time |-> 0,
                       urls |-> RaceUrls,
                     conc |-> ConcurrencyLimit, stop |-> FALSE])

ShutdownStep(w) ==
    \/ Interrupt(w)
    \/ ShutdownWait(w)
    \/ ShutdownClose(w)

WorkNext ==
    \/ Create
    \/ \E w \in Workers : WorkerStep(w)

RaceSpec == RaceInit /\ [][WorkNext]_vars

(* One worker process whose store calls can raise; clients only submit jobs. *)
WorkInit ==
    InitWith({"w1"}, [jobs |-> MaxJobs, api |-> 0, faults |-> MaxFaults, time |-> 0,
                     urls |-> WorkUrls,
                     conc |-> ConcurrencyLimit, stop |-> FALSE])

WorkSpec == WorkInit /\ [][WorkNext]_vars

(* The same, under a scheduler that lets every coroutine that can run do so:  *)
(* the asyncio event loop resumes each task whose await has completed, and    *)
(* every await of the worker is bounded by a timeout or is a store call that  *)
(* returns or raises.                                                         *)
LiveInit ==
    InitWith({"w1"}, [jobs |-> LiveJobs, api |-> 0, faults |-> MaxFaults, time |-> 0,
                     urls |-> WorkUrls,
                     conc |-> ConcurrencyLimit, stop |-> FALSE])

LiveSpec ==
    /\ LiveInit
    /\ [][WorkNext]_vars
    /\ \A w \in Workers : WF_vars(WorkerStep(w))

(* The API alone: clients send every kind of request, valid or not, while   *)
(* the wall clock advances; no worker process runs.                          *)
ClientInit ==
    InitWith({}, [jobs |-> ClientJobs, api |-> ClientCalls, faults |-> 0,
                  time |-> MaxTime, urls |-> ClientUrls,
                     conc |-> ConcurrencyLimit, stop |-> FALSE])

ClientStep ==
    \/ Create
    \/ \E req \in BadRequests : CreateJob(req)
    \/ \E job_id \in PathIds : GetJob(job_id)
    \/ \E job_id \in PathIds, req \in UpdateRequests \cup BadUpdateRequests :
          UpdateJob(job_id, req)
    \/ \E job_id \in PathIds : DeleteJob(job_id)

ClientNext ==
    \/ ClientStep
    \/ Tick

ClientSpec == ClientInit /\ [][ClientNext]_vars

(* The API alone, within one reading of the clock. *)
SubmitInit ==
    InitWith({}, [jobs |-> SubmitJobs, api |-> SubmitCalls, faults |-> 0,
                  time |-> 0, urls |-> ClientUrls,
                     conc |-> ConcurrencyLimit, stop |-> FALSE])

SubmitSpec == SubmitInit /\ [][ClientStep]_vars

(* One worker process that keeps running under the same scheduler, with a   *)
(* store whose operations all succeed.                                       *)
RunInit ==
    InitWith({"w1"}, [jobs |-> LiveJobs, api |-> 0, faults |-> 0, time |-> 0,
                     urls |-> WorkUrls,
                     conc |-> ConcurrencyLimit, stop |-> FALSE])

RunSpec ==
    /\ RunInit
    /\ [][WorkNext]_vars
    /\ \A w \in Workers : WF_vars(WorkerStep(w))

(* One worker process configured with no capacity (a limit of zero or less) *)
(* or with capacity for one job, and a store whose operations may raise.    *)
CapInit ==
    \E c \in ConfiguredLimits :
        InitWith({"w1"}, [jobs |-> LiveJobs, api |-> 0, faults |-> MaxFaults, time |-> 0,
                         urls |-> WorkUrls, conc |-> c, stop |-> FALSE])

CapSpec == CapInit /\ [][WorkNext]_vars

(* One worker process while the wall clock advances, so that jobs differ in *)
(* their createdAt.                                                         *)
FifoInit ==
    InitWith({"w1"}, [jobs |-> MaxJobs, api |-> 0, faults |-> 0, time |-> FifoTime,
                     urls |-> FifoUrls,
                     conc |-> ConcurrencyLimit, stop |-> FALSE])

FifoNext ==
    \/ WorkNext
    \/ Tick

FifoSpec == FifoInit /\ [][FifoNext]_vars

(* One worker process that receives the shutdown signal at some time. *)
StopInit ==
    InitWith({"w1"}, [jobs |-> LiveJobs, api |-> 0, faults |-> 0, time |-> 0,
                     urls |-> FifoUrls,
                     conc |-> ConcurrencyLimit, stop |-> TRUE])

StopNext ==
    \/ WorkNext
    \/ \E w \in Workers : ShutdownStep(w)

StopSpec == StopInit /\ [][StopNext]_vars

(* The same under a scheduler that keeps the main loop and shutdown going,  *)
(* while a task may stay for ever at one of its awaits (page.content,       *)
(* extract_content, capture_screenshot and page.close have no timeout).     *)
LoopStep(w) ==
    \/ Start(w)
    \/ ProcessJobs(w)
    \/ GatherReturn(w)
    \/ Sleep(w)
    \/ ShutdownWait(w)
    \/ ShutdownClose(w)

StopFairSpec ==
    /\ StopInit
    /\ [][StopNext]_vars
    /\ \A w \in Workers : WF_vars(LoopStep(w))

(* One worker process, configured for one job at a time, and the API       *)
(* clients while the wall clock advances.                                   *)
MixInit ==
    InitWith({"w1"}, [jobs |-> MixJobs, api |-> MaxApiCalls, faults |-> 0,
                     time |-> FifoTime, urls |-> FifoUrls,
                     conc |-> 1, stop |-> FALSE])

(* update requests that carry a status alone *)
StatusUpdates == { req \in UpdateRequests : req.result = None /\ req.error = None }

MixNext ==
    \/ Create
    \/ \E id \in DOMAIN jobs, req \in StatusUpdates : UpdateJob(StrObjectId(id), req)
    \/ \E id \in DOMAIN jobs : DeleteJob(StrObjectId(id))
    \/ \E w \in Workers : WorkerStep(w)
    \/ Tick

MixSpec == MixInit /\ [][MixNext]_vars

(* One worker process and jobs for pages that load, fail to load, answer   *)
(* with an error status, give no response, or are too large.               *)
FetchInit ==
    InitWith({"w1"}, [jobs |-> LiveJobs, api |-> 0, faults |-> 0, time |-> 0,
                     urls |-> FetchUrls,
                     conc |-> ConcurrencyLimit, stop |-> FALSE])

FetchSpec == FetchInit /\ [][WorkNext]_vars

----------------------------------------------------------------------------
(* Properties                                                              *)

TaskIds(w) == DOMAIN tasks[w]

(* the task of job id in worker w has gone past its claim of the job *)
Claimed(w, id) == id \in TaskIds(w) /\ tasks[w][id].pc # "start"

(* C1: when two worker processes poll while the same job is pending, at most *)
(* one of them wins the claim and goes on to process the job.                *)
C1_AtMostOneWorkerProcessesJob ==
    \A id \in DOMAIN jobs : Cardinality({ w \in Workers : Claimed(w, id) }) <= 1

LegalTransitions ==
    { <<PENDING, IN_PROGRESS>>, <<IN_PROGRESS, COMPLETED>>, <<IN_PROGRESS, FAILED>> }

(* C2: every status change of a stored job is pending->in_progress,          *)
(* in_progress->completed or in_progress->failed; anything else is rejected  *)
(* and leaves the record unchanged.                                          *)
C2_OnlyLegalTransitions ==
    [][ \A id \in DOMAIN jobs \cap DOMAIN jobs' :
          jobs'[id] # jobs[id] =>
            <<jobs[id].status, jobs'[id].status>> \in LegalTransitions ]_vars

(* C3: every completed job has a result and no error, every failed job has a *)
(* non-empty error and no result.                                            *)
C3_TerminalHasExactlyOne ==
    \A id \in DOMAIN jobs :
        /\ jobs[id].status = COMPLETED =>
             jobs[id].result # None /\ jobs[id].error = None
        /\ jobs[id].status = FAILED =>
             TruthyStr(jobs[id].error) /\ jobs[id].result = None

(* C4: every pending or in_progress job has result, error and completed_at   *)
(* all null.                                                                 *)
C4_NonTerminalAllNull ==
    \A id \in DOMAIN jobs :
        jobs[id].status \in {PENDING, IN_PROGRESS} =>
            /\ jobs[id].result = None
            /\ jobs[id].error = None
            /\ jobs[id].completedAt = None

(* C5: the in_flight set of a worker never holds more than                   *)
(* MAX_CONCURRENT_JOBS job ids.                                              *)
C5_InFlightBounded ==
    \A w \in Workers : Cardinality(current_jobs[w]) <= MAX_CONCURRENT_JOBS

(* a worker is at its limit while another pending job waits in the store *)
C5_Witness ==
    \E w \in Workers :
        /\ Cardinality(current_jobs[w]) = MAX_CONCURRENT_JOBS
        /\ PendingIds(jobs) \ current_jobs[w] # {}

(* C6: a single poll tick dispatches at most capacity =                      *)
(* MAX_CONCURRENT_JOBS - |in_flight| jobs, hence at most MAX_CONCURRENT_JOBS, *)
(* however many jobs are pending.                                            *)
C6_TickClaimsAtMostCapacity ==
    [][ \A w \in Workers :
          LET dispatched == current_jobs'[w] \ current_jobs[w]
          IN /\ Cardinality(dispatched) <=
                  MAX_CONCURRENT_JOBS - Cardinality(current_jobs[w])
             /\ TaskIds(w)' # TaskIds(w) =>
                  Cardinality(TaskIds(w)') <= MAX_CONCURRENT_JOBS ]_vars

(* a tick has just dispatched MAX_CONCURRENT_JOBS jobs out of more pending ones *)
C6_Witness ==
    \E w \in Workers :
        /\ loop[w] = "gather"
        /\ Cardinality(TaskIds(w)) = MAX_CONCURRENT_JOBS
        /\ \A id \in TaskIds(w) : tasks[w][id].pc = "start"
        /\ Cardinality(PendingIds(jobs)) > MAX_CONCURRENT_JOBS

(* C7: every job id added to a worker's in_flight set is eventually removed  *)
(* from it, on every outcome of its task: success, processing failure, or a  *)
(* failed store write.                                                       *)
C7_InFlightEventuallyRemoved ==
    \A w \in Workers : \A id \in 1..LiveJobs :
        (id \in current_jobs[w]) ~> (id \notin current_jobs[w])

(* a task has ended and left in_flight although its processing failed and    *)
(* the write of its failed status raised                                     *)
C7_Witness ==
    \E w \in Workers : \E id \in TaskIds(w) :
        /\ tasks[w][id].pc = "done"
        /\ tasks[w][id].err # None
        /\ id \notin current_jobs[w]
        /\ id \in DOMAIN jobs
        /\ jobs[id].status = IN_PROGRESS
        /\ faults > 0

(* the message of the exception a fetch of url ends in, "" if it returns a   *)
(* result: what the network answers for this URL alone                       *)
FetchError(url) ==
    IF GotoRaises(url) # "" THEN GotoRaises(url)
    ELSE IF ResponseStatus(url) = 0 THEN NoResponseMsg
    ELSE IF ResponseStatus(url) >= 400 THEN HttpErrorMsg(ResponseStatus(url))
    ELSE IF ContentLength(url) > MAX_PAGE_SIZE THEN PageSizeMsg(ContentLength(url))
    ELSE ""

(* the error a task ends with, given what can_fetch answered it and what the *)
(* network answers for its own URL                                           *)
OwnError(t) ==
    IF t.allowed = Some(FALSE) THEN Some(RobotsDisallowMsg)
    ELSE IF FetchError(t.url) # "" THEN Some(FetchError(t.url))
    ELSE None

OwnOutcome(t) == IF OwnError(t) = None THEN COMPLETED ELSE FAILED

(* the step in which the terminal status write of the task of job id is      *)
(* answered by the store, for a job that is still in the collection           *)
TerminalWrite(w, id, pc) ==
    /\ TaskAt(w, id, pc)
    /\ id \in TaskIds(w)'
    /\ tasks'[w][id].pc = "finally"
    /\ faults' = faults
    /\ id \in DOMAIN jobs

C9_FailedAfterThreeAttempts ==
    \A w \in Workers : \A id \in TaskIds(w) :
        LET t == tasks[w][id]
        IN (t.pc = "done" /\ t.allowed = Some(TRUE) /\ FetchError(t.url) # "") =>
              /\ t.attempt = MaxAttempts
              /\ t.wrote = Some(FAILED)
              /\ t.err = Some(FetchError(t.url))
              /\ id \notin current_jobs[w]

(* C10: a job for which can_fetch returned false never has a page opened or  *)
(* loaded, is not delayed or retried, and is written failed with the         *)
(* policy-violation error.                                                   *)
C10_RobotsDeniedNeverFetched ==
    /\ [] \A w \in Workers : \A id \in TaskIds(w) :
            LET t == tasks[w][id]
            IN t.allowed = Some(FALSE) =>
                 /\ t.opened = 0 /\ t.loads = 0 /\ ~t.page /\ ~t.delayed
                 /\ t.attempt = 1
                 /\ t.err = Some(RobotsDisallowMsg)
                 /\ t.pc \in {"except", "finally", "done"}
                 /\ t.pc \in {"finally", "done"} => t.wrote = Some(FAILED)
    /\ [][ \A w \in Workers : \A id \in TaskIds(w) :
             (tasks[w][id].allowed = Some(FALSE) /\ TerminalWrite(w, id, "except")) =>
                 /\ jobs'[id].status = FAILED
                 /\ jobs'[id].error = Some(RobotsDisallowMsg) ]_vars

(* a robots-denied job has ended and is failed in the store with the policy error *)
C10_Witness ==
    \E w \in Workers : \E id \in TaskIds(w) :
        /\ tasks[w][id].allowed = Some(FALSE)
        /\ tasks[w][id].pc = "done"
        /\ id \in DOMAIN jobs
        /\ jobs[id].status = FAILED
        /\ jobs[id].error = Some(RobotsDisallowMsg)
        /\ jobs[id].result = None

(* the stored status of job id, None while the job is not in the store *)
StatusOf(id) == IF id \in DOMAIN jobs THEN Some(jobs[id].status) ELSE None

(* C11: while a worker keeps running and its store operations succeed, every *)
(* job created in pending is eventually observed in_progress and eventually  *)
(* reaches completed or failed; no job stays pending or in_progress forever. *)
C11_EveryJobEventuallyTerminal ==
    \A id \in 1..LiveJobs :
        /\ (StatusOf(id) = Some(PENDING)) ~> (StatusOf(id) = Some(IN_PROGRESS))
        /\ (StatusOf(id) \in {Some(PENDING), Some(IN_PROGRESS)})
              ~> (StatusOf(id) \in {Some(COMPLETED), Some(FAILED)})

(* both submitted jobs have reached a terminal status, one completed and one *)
(* failed, and the worker is still running its loop                          *)
C11_Witness ==
    /\ \E a \in DOMAIN jobs : jobs[a].status = COMPLETED
    /\ \E b \in DOMAIN jobs : jobs[b].status = FAILED
    /\ faults = 0
    /\ is_running["w1"] /\ loop["w1"] \in {"poll", "sleep"}

(* C12: every job a worker moves to completed carries a result whose url is *)
(* the job's own url and whose content field holds the analysis of its page. *)
C12_CompletedCarriesOwnResult ==
    [][ \A w \in Workers : \A id \in TaskIds(w) :
          TerminalWrite(w, id, "complete") =>
            /\ jobs'[id].status = COMPLETED
            /\ jobs'[id].result # None
            /\ jobs'[id].result[1].url = jobs'[id].url
            /\ jobs'[id].result[1].content = ExtractContent(jobs'[id].url) ]_vars

(* a worker has moved a job to completed and the store holds its result *)
C12_Witness ==
    \E w \in Workers : \E id \in TaskIds(w) :
        /\ tasks[w][id].pc \in {"finally", "done"}
        /\ tasks[w][id].wrote = Some(COMPLETED)
        /\ id \in DOMAIN jobs
        /\ jobs[id].status = COMPLETED
        /\ jobs[id].result = tasks[w][id].result
        /\ jobs[id].result # None
        /\ jobs[id].result[1].url = jobs[id].url

(* C13: a job for an unreachable host, every load attempt of which fails,    *)
(* ends only when the retries are exhausted, with status failed, a non-empty *)
(* error and a null result.                                                  *)
C13_UnreachableFailsAfterRetries ==
    \A w \in Workers : \A id \in TaskIds(w) :
        LET t == tasks[w][id]
        IN (t.pc = "done" /\ GotoRaises(t.url) # "" /\ id \in DOMAIN jobs) =>
              /\ t.attempt = MaxAttempts
              /\ jobs[id].status = FAILED
              /\ TruthyStr(jobs[id].error)
              /\ jobs[id].result = None

(* C14: applying to a job the terminal transition that was already applied  *)
(* to it (the same terminal status and payload) is idempotent: the second    *)
(* call mutates nothing, so status, result, error, updated_at and            *)
(* completed_at stay as the first call left them.                            *)
C14_TerminalTransitionIdempotent ==
    [][ \A job_id \in PathIds : \A req \in UpdateRequests :
          ( /\ ObjectIdIsValid(job_id)
            /\ ParseObjectId(job_id) \in DOMAIN jobs
            /\ req.status \in {COMPLETED, FAILED}
            /\ jobs[ParseObjectId(job_id)].status = req.status
            /\ jobs[ParseObjectId(job_id)].result = req.result
            /\ jobs[ParseObjectId(job_id)].error = req.error
            /\ UpdateJob(job_id, req) )
          => jobs' = jobs ]_vars

(* the step is answered with the error code and touches nothing: no store   *)
(* operation is issued, no job is added, removed or changed                  *)
Rejected(code) ==
    /\ response'.code = code
    /\ response'.job = None
    /\ store_ops' = store_ops
    /\ jobs' = jobs
    /\ nextId' = nextId

(* C15: a get, update or delete with a malformed job id fails with a         *)
(* validation error before any store lookup, and a create request with an    *)
(* invalid or missing URL is rejected without inserting a job; the stored    *)
(* jobs are unchanged in each case.                                          *)
C15_InvalidInputRejected ==
    [][ /\ \A job_id \in PathIds :
              ~ObjectIdIsValid(job_id) =>
                 /\ GetJob(job_id) => Rejected(400)
                 /\ DeleteJob(job_id) => Rejected(400)
                 /\ \A req \in UpdateRequests : UpdateJob(job_id, req) => Rejected(400)
        /\ \A req \in BadRequests : CreateJob(req) => Rejected(422) ]_vars

(* a call with a malformed id has been answered 400 while jobs are stored,   *)
(* and the only store operations so far are those of the creations           *)
C15_Witness ==
    /\ response.code = 400
    /\ response.detail = "Invalid job ID format"
    /\ DOMAIN jobs # {}
    /\ apiCalls > 0
    /\ store_ops = 2 * nextId

(* C16: every successful create-job call adds exactly one job, with a fresh *)
(* id, status pending, the submitted url and options and null result, error  *)
(* and completed_at, and returns that job; the number of stored jobs grows   *)
(* by one and no existing job is changed.                                    *)
C16_CreateAddsOneJob ==
    [][ \A req \in Requests :
          (req.url \in limits.urls /\ CreateJob(req)) =>
            LET new == DOMAIN jobs' \ DOMAIN jobs
            IN /\ Cardinality(new) = 1
               /\ Cardinality(DOMAIN jobs') = Cardinality(DOMAIN jobs) + 1
               /\ \A id \in DOMAIN jobs : id \in DOMAIN jobs' /\ jobs'[id] = jobs[id]
               /\ \A id \in new :
                     /\ id > nextId
                     /\ jobs'[id].status = PENDING
                     /\ jobs'[id].url = req.url
                     /\ jobs'[id].options = req.options
                     /\ jobs'[id].result = None
                     /\ jobs'[id].error = None
                     /\ jobs'[id].completedAt = None
                     /\ response' = HttpResponse(201, Some(SerializeJob(id, jobs'[id])), "")
      ]_vars

(* the dispatcher loop of worker w stands at "await asyncio.gather(...)"     *)
(* and goes on only when every task of the tick has ended                    *)
AwaitsTasks(w) == loop[w] = "gather"

(* C17: the dispatcher loop does not wait for the tasks it dispatched: while *)
(* a job of an earlier tick is in flight and capacity remains, the loop of   *)
(* that worker is free to run its next tick, it is not held until the tasks  *)
(* have ended.                                                               *)
C17_LoopDoesNotWaitForTasks ==
    \A w \in Workers :
        ( /\ is_running[w]
          /\ current_jobs[w] # {}
          /\ Cardinality(current_jobs[w]) < MAX_CONCURRENT_JOBS )
        => ~AwaitsTasks(w)

(* the load of url fails with a transient error: page.goto raises (timeout,  *)
(* connection failure) or the server answers 5xx                             *)
TransientFailure(url) ==
    \/ GotoRaises(url) # ""
    \/ ResponseStatus(url) >= 500

(* C18: an attempt that fails with a transient error is retried up to the    *)
(* attempt ceiling before the job is marked failed: a worker's step moves    *)
(* the stored status of such a job from in_progress to failed only on the    *)
(* last attempt, until then the status stays in_progress.                    *)
C18_TransientRetriedBeforeFailed ==
    [][ \A w \in Workers : \A id \in TaskIds(w) :
          ( /\ TaskAt(w, id, "except")
            /\ TransientFailure(tasks[w][id].url)
            /\ tasks[w][id].loads > 0
            /\ id \in DOMAIN jobs
            /\ jobs[id].status = IN_PROGRESS
            /\ jobs'[id].status = FAILED )
          => tasks[w][id].attempt = MaxAttempts
      ]_vars

(* job id is in the in_flight set (current_jobs) of some worker *)
InFlight(id) == \E w \in Workers : id \in current_jobs[w]

(* C19: a job id leaves a worker's in_flight set only after the job's       *)
(* terminal status (completed or failed) has been written to the store;     *)
(* hence a job whose stored status is in_progress is in the in_flight set   *)
(* of some worker.                                                          *)
C19_InFlightUntilTerminalWritten ==
    /\ [][ \A w \in Workers : \A id \in current_jobs[w] :
             (id \notin current_jobs'[w] /\ id \in DOMAIN jobs)
             => jobs[id].status \in {COMPLETED, FAILED} ]_vars
    /\ [] ( \A id \in DOMAIN jobs :
              jobs[id].status = IN_PROGRESS => InFlight(id) )

(* C20: on a tick where capacity = MAX_CONCURRENT_JOBS - |in_flight| is zero *)
(* or less the worker issues no query to the store (the tick is no store     *)
(* call, so none that can raise) and dispatches no task; in_flight and the   *)
(* store are unchanged by that tick.                                         *)
C20_NoCapacityTickIsIdle ==
    [][ \A w \in Workers :
          ( /\ ProcessJobs(w)
            /\ MAX_CONCURRENT_JOBS - Cardinality(current_jobs[w]) <= 0 )
          => /\ faults' = faults
             /\ tasks' = tasks
             /\ current_jobs' = current_jobs
             /\ jobs' = jobs
      ]_vars

(* a worker without capacity has run a tick while a pending job was waiting *)
C20_Witness ==
    \E w \in Workers :
        /\ is_running[w]
        /\ loop[w] = "sleep"
        /\ MAX_CONCURRENT_JOBS - Cardinality(current_jobs[w]) <= 0
        /\ PendingIds(jobs) # {}

(* the smaller of two integers *)
Min(a, b) == IF a < b THEN a ELSE b

(* C21: the jobs a tick claims are the oldest pending jobs by createdAt: if *)
(* the tick claims j, every job that was pending at the query with a        *)
(* smaller createdAt and not in this worker's in_flight set is claimed in   *)
(* the same tick; a tick whose query is answered claims min(capacity,       *)
(* number of such pending jobs) jobs.                                       *)
C21_TickClaimsOldestPending ==
    [][ \A w \in Workers :
          LET claimed  == current_jobs'[w] \ current_jobs[w]
              avail    == PendingIds(jobs) \ current_jobs[w]
              capacity == MAX_CONCURRENT_JOBS - Cardinality(current_jobs[w])
          IN /\ \A j \in claimed : \A k \in avail :
                   jobs[k].createdAt < jobs[j].createdAt => k \in claimed
             /\ (ProcessJobs(w) /\ faults' = faults /\ capacity > 0) =>
                   Cardinality(claimed) = Min(capacity, Cardinality(avail))
      ]_vars

(* a tick has just claimed the two oldest of three pending jobs and left the *)
(* youngest                                                                  *)
C21_Witness ==
    \E w \in Workers : \E k \in PendingIds(jobs) \ current_jobs[w] :
        /\ Cardinality(current_jobs[w]) = MAX_CONCURRENT_JOBS
        /\ \A j \in current_jobs[w] :
              /\ TaskAt(w, j, "start")
              /\ j \in DOMAIN jobs
              /\ jobs[j].createdAt < jobs[k].createdAt

(* shutdown of worker w has begun *)
ShutdownBegun(w) == shutdown_calls[w] > 0

(* a close call is issued on a resource worker w holds *)
Releases(w) == closed'[w] # closed[w]

(* C22: after shutdown begins the worker issues no further store poll and   *)
(* claims no new job, and it releases its resources (browser context,       *)
(* browser, store client) only when its in_flight set is empty (the code    *)
(* has no shutdown timeout): no resource is released while a task runs.     *)
C22_ShutdownWaitsForInFlight ==
    [][ \A w \in Workers :
          /\ ShutdownBegun(w) =>
                /\ ~ProcessJobs(w)
                /\ current_jobs'[w] \subseteq current_jobs[w]
                /\ TaskIds(w)' \subseteq TaskIds(w)
          /\ Releases(w) =>
                /\ ShutdownBegun(w)
                /\ current_jobs[w] = {}
                /\ \A id \in TaskIds(w) : tasks[w][id].pc = "done"
      ]_vars

(* the signal came while a job was in flight, the job was processed to its *)
(* end, and the resources have been released                               *)
C22_Witness ==
    \E w \in Workers :
        /\ ShutdownBegun(w)
        /\ TaskIds(w) # {}
        /\ jobs_processed[w] > 0
        /\ closed[w].context > 0
        /\ closed[w].browser > 0
        /\ closed[w].client > 0

(* the worker process has released its resources and main has returned *)
Finished(w) ==
    /\ loop[w] = "exit"
    /\ closed[w].context > 0
    /\ closed[w].browser > 0
    /\ closed[w].client > 0

(* C23: shutdown always terminates: once shutdown has begun the worker      *)
(* eventually releases its resources and finishes, also when an in-flight   *)
(* task never completes.                                                    *)
C23_ShutdownTerminates ==
    \A w \in Workers : ShutdownBegun(w) ~> Finished(w)

(* C24: a store error raised while a tick queries for pending jobs is caught *)
(* inside the tick: the tick dispatches nothing, in_flight and the store are *)
(* unchanged, the worker stays running, and the loop performs its next tick  *)
(* after the poll interval.                                                  *)
C24_PollErrorSkipsTick ==
    /\ [][ \A w \in Workers :
             (ProcessJobs(w) /\ faults' # faults) =>
                /\ tasks' = tasks
                /\ current_jobs' = current_jobs
                /\ jobs' = jobs
                /\ is_running'[w]
                /\ loop'[w] = "sleep" ]_vars
    /\ \A w \in Workers :
          (loop[w] = "sleep" /\ faults > 0) ~> (loop[w] = "poll" /\ is_running[w])

(* the first query of a worker raised while a job was pending, and the loop *)
(* has come to its next tick                                                *)
C24_Witness ==
    \E w \in Workers :
        /\ loop[w] = "poll"
        /\ is_running[w]
        /\ faults > 0
        /\ jobs_processed[w] = 0
        /\ TaskIds(w) = {}
        /\ current_jobs[w] = {}
        /\ PendingIds(jobs) # {}

Terminal == {COMPLETED, FAILED}

(* C25: completedAt is written exactly once over a job's history, at the    *)
(* moment the job enters completed or failed; once non-null it is never     *)
(* overwritten by a later worker or API operation.                          *)
C25_CompletedAtWrittenOnce ==
    [][ \A id \in DOMAIN jobs \cap DOMAIN jobs' :
          /\ jobs[id].completedAt # None =>
                jobs'[id].completedAt = jobs[id].completedAt
          /\ (jobs[id].completedAt = None /\ jobs'[id].completedAt # None) =>
                /\ jobs[id].status \notin Terminal
                /\ jobs'[id].status \in Terminal
      ]_vars

(* C26: a job's id, url, options and createdAt never change after creation: *)
(* every worker status write and every update-status API call leaves these  *)
(* four fields of every job unchanged (the id is the key under which the    *)
(* store holds the job).                                                    *)
C26_IdentityFieldsImmutable ==
    [][ \A id \in DOMAIN jobs \cap DOMAIN jobs' :
          /\ jobs'[id].url = jobs[id].url
          /\ jobs'[id].options = jobs[id].options
          /\ jobs'[id].createdAt = jobs[id].createdAt
      ]_vars

(* a job created earlier has been written by a worker and updated through *)
(* the API at a later time                                                 *)
C26_Witness ==
    \E id \in DOMAIN jobs : \E w \in Workers :
        /\ id \in TaskIds(w)
        /\ tasks[w][id].wrote # None
        /\ apiCalls > 0
        /\ response.code = 200
        /\ response.job # None
        /\ response.job[1].id = StrObjectId(id)
        /\ jobs[id].updatedAt > jobs[id].createdAt

(* C27: worker operations never change the set of job ids in the store: the *)
(* worker never deletes a job, and its status writes for a job that was     *)
(* deleted through the API while it was being processed do not re-create    *)
(* the record.  A step that is no API call (no call counted, no document   *)
(* inserted) is a step of a worker or of the clock.                         *)
C27_WorkerKeepsJobIds ==
    [][ (apiCalls' = apiCalls /\ nextId' = nextId) => DOMAIN jobs' = DOMAIN jobs ]_vars

(* a job was deleted through the API, and the worker that processed it has *)
(* issued its terminal status write and ended the task                     *)
C27_Witness ==
    \E w \in Workers : \E id \in TaskIds(w) :
        /\ id \notin DOMAIN jobs
        /\ tasks[w][id].pc = "done"
        /\ tasks[w][id].wrote \in {Some(COMPLETED), Some(FAILED)}
        /\ response = HttpResponse(200, None, "Job deleted successfully")

(* sub occurs in the string s *)
Contains(s, sub) ==
    \E i \in 1..(Len(s) - Len(sub) + 1) : SubSeq(s, i, i + Len(sub) - 1) = sub

(* page.goto(url) returns no response, or a response with status >= 400 *)
BadResponse(url) ==
    /\ GotoRaises(url) = ""
    /\ ResponseStatus(url) = 0 \/ ResponseStatus(url) >= 400

(* C28: a page load that returns no response, or a response with HTTP status *)
(* >= 400, makes the fetch fail: the job does not complete, no analysis is   *)
(* run on the page, and for status >= 400 the job's error message contains   *)
(* the status code.                                                          *)
C28_BadResponseFailsFetch ==
    \A w \in Workers : \A id \in TaskIds(w) :
        LET t == tasks[w][id]
        IN (t.loads > 0 /\ BadResponse(t.url)) =>
              /\ ~t.analysed
              /\ t.result = None
              /\ t.wrote # Some(COMPLETED)
              /\ id \in DOMAIN jobs => jobs[id].status # COMPLETED
              /\ (t.pc \in {"finally", "done"} /\ id \in DOMAIN jobs) =>
                    /\ jobs[id].status = FAILED
                    /\ jobs[id].result = None
                    /\ TruthyStr(jobs[id].error)
                    /\ ResponseStatus(t.url) >= 400 =>
                          Contains(jobs[id].error[1], ToString(ResponseStatus(t.url)))

(* a job whose page answered 404 and a job whose load gave no response have *)
(* both ended failed                                                        *)
C28_Witness ==
    \E w \in Workers : \E a \in TaskIds(w) : \E b \in TaskIds(w) :
        /\ tasks[w][a].pc = "done" /\ tasks[w][b].pc = "done"
        /\ ResponseStatus(tasks[w][a].url) >= 400
        /\ ResponseStatus(tasks[w][b].url) = 0
        /\ tasks[w][a].loads > 0 /\ tasks[w][b].loads > 0
        /\ a \in DOMAIN jobs /\ b \in DOMAIN jobs
        /\ jobs[a].status = FAILED /\ jobs[b].status = FAILED
        /\ jobs[a].error = Some(HttpErrorMsg(ResponseStatus(tasks[w][a].url)))
        /\ jobs[b].error = Some(NoResponseMsg)

(* C29: when the loaded page content exceeds the maximum content size the   *)
(* fetch aborts and the job ends failed without retry; the analysis (and    *)
(* the screenshot step after it) is never invoked for that job: analysis    *)
(* runs only on content whose size is at most the maximum.                  *)
C29_OversizeNeverAnalysed ==
    \A w \in Workers : \A id \in TaskIds(w) :
        LET t == tasks[w][id]
        IN /\ t.analysed => ContentLength(t.url) <= MAX_PAGE_SIZE
           /\ (ContentLength(t.url) > MAX_PAGE_SIZE /\ FetchError(t.url) = PageSizeMsg(ContentLength(t.url))) =>
                 /\ ~t.analysed
                 /\ t.result = None
                 /\ t.attempt = 1
                 /\ t.loads <= 1
                 /\ t.wrote # Some(COMPLETED)
                 /\ (t.pc \in {"finally", "done"} /\ id \in DOMAIN jobs) =>
                       /\ jobs[id].status = FAILED
                       /\ jobs[id].result = None
                       /\ jobs[id].error = Some(PageSizeMsg(ContentLength(t.url)))

(* a job whose page is larger than the maximum has ended failed after one  *)
(* load, and a job whose page is within the maximum has been analysed      *)
C29_Witness ==
    \E w \in Workers : \E a \in TaskIds(w) : \E b \in TaskIds(w) :
        /\ ContentLength(tasks[w][a].url) > MAX_PAGE_SIZE
        /\ tasks[w][a].pc = "done"
        /\ tasks[w][a].loads = 1
        /\ a \in DOMAIN jobs
        /\ jobs[a].status = FAILED
        /\ tasks[w][b].analysed
        /\ ContentLength(tasks[w][b].url) <= MAX_PAGE_SIZE

(* the jobs of worker w for which a page is open *)
OpenPages(w) == { id \in TaskIds(w) : tasks[w][id].page }

(* C30: every page acquired for a job is released once on every exit path   *)
(* of the fetch (success, load error, HTTP error, no response, size limit): *)
(* a page is opened once per attempt, it is closed when _scrape_page is     *)
(* left, after a job's task has ended no page opened for it is open, and    *)
(* the open pages never outnumber the in-flight jobs.                       *)
C30_PageAlwaysReleased ==
    /\ [] \A w \in Workers :
            /\ \A id \in TaskIds(w) :
                  LET t == tasks[w][id]
                  IN /\ t.opened <= t.attempt
                     /\ t.page => t.opened > 0 /\ t.pc \in {"goto", "content", "close"}
                     /\ t.page => id \in current_jobs[w]
            /\ Cardinality(OpenPages(w)) <= Cardinality(current_jobs[w])
    /\ [][ \A w \in Workers : \A id \in TaskIds(w) \cap TaskIds(w)' :
             LET t == tasks[w][id]
                 u == tasks'[w][id]
             IN /\ (~t.page /\ u.page) => (t.pc = "newpage" /\ u.opened = t.opened + 1)
                /\ (t.page /\ ~u.page) => (t.pc = "close" /\ u.opened = t.opened)
                /\ (t.pc = "close" /\ u.pc # "close") => ~u.page ]_vars

(* two jobs have ended, one fetched and one failed at its load, each with *)
(* one page opened and none left open                                     *)
C30_Witness ==
    \E w \in Workers : \E a \in TaskIds(w) : \E b \in TaskIds(w) :
        /\ tasks[w][a].pc = "done" /\ tasks[w][b].pc = "done"
        /\ tasks[w][a].err = None /\ tasks[w][b].err # None
        /\ tasks[w][a].opened = 1 /\ tasks[w][b].opened = 1
        /\ ~tasks[w][a].page /\ ~tasks[w][b].page
        /\ OpenPages(w) = {}
        /\ current_jobs[w] = {}

(* the request for the robots.txt of the origin of url raises or is answered *)
(* with a status other than 200                                              *)
PolicyUnavailable(url) == RobotsStatus(Origin(url)) # "200"

FreshEntry(w, url) ==
    /\ Origin(url) \in DOMAIN cache[w]
    /\ now - cache[w][Origin(url)].ts < cache_ttl

(* C32: a cached robots decision is served without a new fetch of the       *)
(* policy file on every can_fetch call for its key made less than the TTL   *)
(* after it was cached, and is never served once the TTL has elapsed: the   *)
(* first call after expiry fetches the policy again and replaces the entry. *)
C32_CacheServedWithinTtl ==
    [][ \A w \in Workers : \A id \in TaskIds(w) \cap TaskIds(w)' :
          LET t == tasks[w][id]
              u == tasks'[w][id]
              o == Origin(t.url)
          IN /\ (t.pc = "robots" /\ u.pc # "robots") =>
                   /\ FreshEntry(w, t.url) =>
                         /\ u.pc # "robots_fetch"
                         /\ u.allowed = Some(cache[w][o].decision)
                         /\ cache' = cache
                   /\ ~FreshEntry(w, t.url) => u.pc = "robots_fetch"
             /\ (t.pc = "robots_fetch" /\ u.pc # "robots_fetch"
                   /\ RobotsStatus(o) = "200") =>
                   /\ o \in DOMAIN cache'[w]
                   /\ cache'[w][o] = [decision |-> PolicyAllows(t.url), ts |-> now]
      ]_vars

(* the entry cached at time 0, when two jobs of the origin were checked,  *)
(* has been replaced by a new fetch for a third job after the TTL         *)
C32_Witness ==
    \E w \in Workers : \E a \in DOMAIN jobs : \E b \in DOMAIN jobs : \E c \in TaskIds(w) :
        /\ a # b /\ b # c /\ a # c
        /\ Origin(jobs[a].url) = "a" /\ Origin(jobs[b].url) = "a"
        /\ jobs[a].status = COMPLETED /\ jobs[b].status = COMPLETED
        /\ jobs[a].completedAt = Some(0) /\ jobs[b].completedAt = Some(0)
        /\ Origin(tasks[w][c].url) = "a"
        /\ tasks[w][c].allowed = Some(TRUE)
        /\ "a" \in DOMAIN cache[w]
        /\ cache[w]["a"].ts = cache_ttl
        /\ now = cache_ttl

(* C33: can_fetch(url, agent) always returns the origin's robots policy     *)
(* decision for that url: a decision cached while one URL was checked is    *)
(* never returned for another URL of the origin whose decision differs.     *)
C33_DecisionIsForTheUrl ==
    \A w \in Workers : \A id \in TaskIds(w) :
        LET t == tasks[w][id]
        IN t.allowed # None => t.allowed = Some(RobotsDecision(t.url))

(* C34: the transition of a job into in_progress by a worker changes only  *)
(* its status and updatedAt: result, error, completedAt, url, options and  *)
(* createdAt of that job, and every field of every other job, are          *)
(* unchanged.                                                              *)
C34_InProgressWriteFrame ==
    [][ \A id \in DOMAIN jobs \cap DOMAIN jobs' :
          (jobs[id].status # IN_PROGRESS /\ jobs'[id].status = IN_PROGRESS) =>
             /\ DOMAIN jobs' = DOMAIN jobs
             /\ jobs'[id] = [ jobs[id] EXCEPT !.status = IN_PROGRESS, !.updatedAt = now ]
             /\ \A other \in DOMAIN jobs \ {id} : jobs'[other] = jobs[other]
      ]_vars

(* a job created at time 0 entered in_progress at a later time, next to a *)
(* job that has ended                                                     *)
C34_Witness ==
    \E id \in DOMAIN jobs : \E other \in DOMAIN jobs :
        /\ jobs[id].status = IN_PROGRESS
        /\ jobs[id].updatedAt > jobs[id].createdAt
        /\ jobs[other].status \in Terminal

(* the terminal status write of a task has been issued *)
TerminalWritten(t) == t.wrote \in {Some(COMPLETED), Some(FAILED)}

(* C35: for every job a worker processes the steps happen in a fixed      *)
(* order: the in_progress write is issued before the robots check, the    *)
(* robots check before the rate-limit delay, the delay before the page    *)
(* load, and the terminal write after all of them; no page load starts    *)
(* for a job whose in_progress write has not been issued, and none        *)
(* without a preceding rate-limit delay.                                  *)
C35_FixedStepOrder ==
    [][ \A w \in Workers : \A id \in TaskIds(w) :
          id \in DOMAIN tasks'[w] =>
            LET t == tasks[w][id]
                u == tasks'[w][id]
            IN /\ (t.allowed = None /\ u.allowed # None) =>
                     t.wrote = Some(IN_PROGRESS)
               /\ (~t.delayed /\ u.delayed) =>
                     (t.allowed # None /\ t.wrote = Some(IN_PROGRESS))
               /\ u.loads > t.loads =>
                     (t.delayed /\ t.allowed # None /\ t.wrote = Some(IN_PROGRESS))
               /\ (~TerminalWritten(t) /\ TerminalWritten(u)) =>
                     (t.wrote = Some(IN_PROGRESS) /\ t.allowed # None)
               /\ TerminalWritten(t) =>
                     (u.allowed = t.allowed /\ u.delayed = t.delayed /\
                      u.loads = t.loads /\ u.wrote = t.wrote)
      ]_vars

(* one task went through all the steps to a completed write while another *)
(* was denied by robots.txt and went from the check to the failed write   *)
C35_Witness ==
    \E w \in Workers : \E id, other \in TaskIds(w) :
        /\ tasks[w][id].wrote = Some(COMPLETED)
        /\ tasks[w][id].allowed = Some(TRUE)
        /\ tasks[w][id].delayed
        /\ tasks[w][id].loads = 1
        /\ tasks[w][other].wrote = Some(FAILED)
        /\ tasks[w][other].allowed = Some(FALSE)
        /\ ~tasks[w][other].delayed
        /\ tasks[w][other].loads = 0

(* the task of job id in worker w has not ended *)
Live(w, id) == id \in DOMAIN tasks[w] /\ tasks[w][id].pc # "done"

(* C36: within one worker process at most one processing task exists per  *)
(* job id at any time: a polled job is dispatched only if its id is not   *)
(* in current_jobs, its id is in current_jobs from the creation of its    *)
(* task until the task ends, and no task is created for an id while a     *)
(* task of that id is still running.                                      *)
C36_OneTaskPerJob ==
    /\ [](\A w \in Workers : \A id \in TaskIds(w) :
             Live(w, id) => id \in current_jobs[w])
    /\ [][ \A w \in Workers :
             /\ \A id \in DOMAIN tasks'[w] :
                  (id \notin DOMAIN tasks[w] \/ ~Live(w, id)) /\ tasks'[w][id].pc = "start"
                     => (id \notin current_jobs[w] /\ id \in current_jobs'[w])
             /\ \A id \in TaskIds(w) :
                  Live(w, id) =>
                     /\ id \in DOMAIN tasks'[w]
                     /\ tasks'[w][id].attempt = tasks[w][id].attempt
                     /\ tasks'[w][id].pc = "start" => tasks[w][id].pc = "start"
         ]_vars

(* the second tick of a worker dispatched job 3 after jobs 1 and 2 of the *)
(* first tick had ended                                                   *)
C36_Witness ==
    \E w \in Workers :
        /\ TaskIds(w) = {3}
        /\ Live(w, 3)
        /\ current_jobs[w] = {3}
        /\ jobs_processed[w] = 2

(* C37: the worker's counters stay consistent: whenever current_jobs is   *)
(* empty, jobs_processed = jobs_succeeded + jobs_failed; each job that    *)
(* leaves current_jobs adds one to jobs_processed and one to exactly one  *)
(* of jobs_succeeded and jobs_failed, and the counters change at no other *)
(* step.                                                                  *)
C37_CountersConsistent ==
    /\ [](\A w \in Workers :
             current_jobs[w] = {} =>
                jobs_processed[w] = jobs_succeeded[w] + jobs_failed[w])
    /\ [][ \A w \in Workers :
             LET ended == Cardinality(current_jobs[w] \ current_jobs'[w])
             IN /\ ended <= 1
                /\ jobs_processed'[w] = jobs_processed[w] + ended
                /\ jobs_succeeded'[w] >= jobs_succeeded[w]
                /\ jobs_failed'[w] >= jobs_failed[w]
                /\ (jobs_succeeded'[w] + jobs_failed'[w]) =
                      (jobs_succeeded[w] + jobs_failed[w]) + ended
         ]_vars

(* three jobs have been processed, at least one of each outcome, and none *)
(* is in flight                                                           *)
C37_Witness ==
    \E w \in Workers :
        /\ current_jobs[w] = {}
        /\ jobs_processed[w] = 3
        /\ jobs_succeeded[w] >= 1
        /\ jobs_failed[w] >= 1

C39_ReleasedAtMostOnce ==
    \A w \in Workers :
        /\ closed[w].context <= 1
        /\ closed[w].browser <= 1
        /\ closed[w].client <= 1

====
